---- MODULE Spec2Model ----
(***************************************************************************)
(* A model of the bencode codec of tinytorrent: the recursive-descent      *)
(* decoder parse_benc_value, the encoder From<&Value> for Vec<u8>, the     *)
(* derived ordering of Value that keys the BTreeMap of a Dictionary, and   *)
(* the two parse_torrent_file helpers (src/bencode.rs and src/parser.rs).  *)
(*                                                                         *)
(* Bytes are numbers 0..255.  An i64 is its two's-complement bit pattern,  *)
(* four 16-bit limbs, least significant first, so that the wrap of a       *)
(* release build and the overflow check of a debug build are both exact.   *)
(*                                                                         *)
(* The stream yields the bytes of the input in order and then None: a read *)
(* error of the underlying file is not modelled.  A byte-string length is  *)
(* a natural number; the inputs are too short for a usize to overflow.     *)
(***************************************************************************)
EXTENDS Integers, Sequences, FiniteSets, TLC

(***************************************************************************)
(* Byte literals of the grammar.                                           *)
(***************************************************************************)
ByteI == 105
ByteL == 108
ByteD == 100
ByteE == 101
Colon == 58
Digit0 == 48
Digit9 == 57
Minus == 45

(***************************************************************************)
(* i64 arithmetic on 16-bit limbs.                                         *)
(***************************************************************************)
LimbBase == 2^16
SignLimb == 2^15
U8Mod == 2^8

I64Zero == <<0, 0, 0, 0>>
I64Min == <<0, 0, 0, SignLimb>>
I64Max == <<LimbBase - 1, LimbBase - 1, LimbBase - 1, SignLimb - 1>>

IsNeg(u) == u[4] >= SignLimb

\* u * m + a on the bit pattern, as five limbs (the fifth is what a 64-bit
\* register drops).  m <= 10 and a <= 255 keep every step below 2^31.
MulAdd5(u, m, a) ==
    LET t1 == u[1] * m + a
        t2 == u[2] * m + (t1 \div LimbBase)
        t3 == u[3] * m + (t2 \div LimbBase)
        t4 == u[4] * m + (t3 \div LimbBase)
    IN  <<t1 % LimbBase, t2 % LimbBase, t3 % LimbBase, t4 % LimbBase,
          t4 \div LimbBase>>

Low4(p) == <<p[1], p[2], p[3], p[4]>>

\* i64::wrapping_mul(x, 10): what `x *= 10` does without overflow checks.
WrappingMul10(u) == Low4(MulAdd5(u, 10, 0))

\* i64::wrapping_add(x, d) for 0 <= d <= 255: `x += d` without overflow checks.
WrappingAdd(u, d) == Low4(MulAdd5(u, 1, d))

\* Two's-complement negation of the bit pattern (the magnitude of a negative).
Negate(u) ==
    Low4(MulAdd5(<<LimbBase - 1 - u[1], LimbBase - 1 - u[2],
                   LimbBase - 1 - u[3], LimbBase - 1 - u[4]>>, 1, 1))

\* Whether the mathematical product x * 10 leaves the i64 range: the condition
\* on which `x *= 10` panics when overflow checks are compiled in.
MulOverflows(u) ==
    IF ~IsNeg(u)
    THEN LET p == MulAdd5(u, 10, 0) IN p[5] > 0 \/ p[4] >= SignLimb
    ELSE LET p == MulAdd5(Negate(u), 10, 0)
         IN  \/ p[5] > 0
             \/ p[4] > SignLimb
             \/ (p[4] = SignLimb /\ (p[1] > 0 \/ p[2] > 0 \/ p[3] > 0))

\* Whether x + d (0 <= d <= 255) leaves the i64 range.
AddOverflows(u, d) == ~IsNeg(u) /\ IsNeg(WrappingAdd(u, d))

\* The limbs of a small mathematical integer.
I64(n) ==
    LET Pos(k) == <<k % LimbBase, (k \div LimbBase) % LimbBase, 0, 0>>
    IN  IF n >= 0 THEN Pos(n) ELSE Negate(Pos(-n))

\* Unsigned division of the bit pattern by ten: <<quotient, remainder>>.
DivMod10(u) ==
    LET c4 == u[4]
        c3 == (c4 % 10) * LimbBase + u[3]
        c2 == (c3 % 10) * LimbBase + u[2]
        c1 == (c2 % 10) * LimbBase + u[1]
    IN  <<(<<c1 \div 10, c2 \div 10, c3 \div 10, c4 \div 10>>), c1 % 10>>

RECURSIVE UDigits(_)
\* The decimal digits of a non-zero unsigned bit pattern, as ASCII bytes.
UDigits(u) ==
    IF u = I64Zero THEN <<>>
    ELSE LET qr == DivMod10(u) IN UDigits(qr[1]) \o <<Digit0 + qr[2]>>

\* i64::to_string, as the bytes `.chars().map(|x| x as u8)` yields.
I64ToString(u) ==
    IF u = I64Zero THEN <<Digit0>>
    ELSE IF IsNeg(u) THEN <<Minus>> \o UDigits(Negate(u))
    ELSE UDigits(u)

RECURSIVE NatDigits(_)
NatDigits(n) == IF n = 0 THEN <<>> ELSE NatDigits(n \div 10) \o <<Digit0 + (n % 10)>>

\* usize::to_string of a length.
UsizeToString(n) == IF n = 0 THEN <<Digit0>> ELSE NatDigits(n)

\* Ordering of i64 (signed): -1, 0 or 1.
I64Cmp(a, b) ==
    IF a = b THEN 0
    ELSE IF IsNeg(a) # IsNeg(b) THEN (IF IsNeg(a) THEN -1 ELSE 1)
    ELSE LET i == CHOOSE k \in 1..4 : a[k] # b[k] /\ \A j \in (k+1)..4 : a[j] = b[j]
         IN  IF a[i] < b[i] THEN -1 ELSE 1

(***************************************************************************)
(* Value: the tagged union.  A Dictionary holds its BTreeMap as the        *)
(* sequence of <<key, value>> pairs in iteration (ascending key) order.    *)
(***************************************************************************)
Integer(x) == [tag |-> "Integer", val |-> x]
ByteString(b) == [tag |-> "ByteString", val |-> b]
List(items) == [tag |-> "List", val |-> items]
Dictionary(map) == [tag |-> "Dictionary", val |-> map]
End == [tag |-> "End", val |-> <<>>]

\* Position of the variant in the enum declaration: what derive(Ord) compares first.
VariantIndex(v) ==
    CASE v.tag = "Integer" -> 0
      [] v.tag = "ByteString" -> 1
      [] v.tag = "List" -> 2
      [] v.tag = "Dictionary" -> 3
      [] v.tag = "End" -> 4

IntCmp(a, b) == IF a < b THEN -1 ELSE IF a > b THEN 1 ELSE 0

RECURSIVE BytesCmp(_, _)
\* Ord for Vec<u8>: lexicographic on unsigned bytes, a proper prefix first.
BytesCmp(a, b) ==
    IF a = <<>> /\ b = <<>> THEN 0
    ELSE IF a = <<>> THEN -1
    ELSE IF b = <<>> THEN 1
    ELSE IF Head(a) # Head(b) THEN IntCmp(Head(a), Head(b))
    ELSE BytesCmp(Tail(a), Tail(b))

RECURSIVE ValueCmp(_, _)
RECURSIVE SeqCmp(_, _)
RECURSIVE MapCmp(_, _)
\* derive(PartialOrd, Ord) for Value: variant first, then the payload.
ValueCmp(a, b) ==
    IF VariantIndex(a) # VariantIndex(b)
    THEN IntCmp(VariantIndex(a), VariantIndex(b))
    ELSE CASE a.tag = "Integer" -> I64Cmp(a.val, b.val)
           [] a.tag = "ByteString" -> BytesCmp(a.val, b.val)
           [] a.tag = "List" -> SeqCmp(a.val, b.val)
           [] a.tag = "Dictionary" -> MapCmp(a.val, b.val)
           [] a.tag = "End" -> 0

\* Ord for Vec<Value>: lexicographic.
SeqCmp(a, b) ==
    IF a = <<>> /\ b = <<>> THEN 0
    ELSE IF a = <<>> THEN -1
    ELSE IF b = <<>> THEN 1
    ELSE LET c == ValueCmp(Head(a), Head(b))
         IN  IF c # 0 THEN c ELSE SeqCmp(Tail(a), Tail(b))

\* Ord for BTreeMap<Value, Value>: lexicographic over its (key, value) pairs.
MapCmp(a, b) ==
    IF a = <<>> /\ b = <<>> THEN 0
    ELSE IF a = <<>> THEN -1
    ELSE IF b = <<>> THEN 1
    ELSE LET ck == ValueCmp(Head(a)[1], Head(b)[1])
             cv == ValueCmp(Head(a)[2], Head(b)[2])
         IN  IF ck # 0 THEN ck
             ELSE IF cv # 0 THEN cv
             ELSE MapCmp(Tail(a), Tail(b))

\* A map that keeps insertion order instead of key order: the defect that
\* CanonicalOrdering has to detect.
InsertAppend(map, key, value) == Append(map, <<key, value>>)

\* BTreeMap::insert: replace the value of an equal key, else place the pair so
\* that the keys stay ascending under ValueCmp.
BTreeInsert(map, key, value) ==
    IF \E i \in 1..Len(map) : ValueCmp(map[i][1], key) = 0
    THEN [i \in 1..Len(map) |->
            IF ValueCmp(map[i][1], key) = 0 THEN <<map[i][1], value>> ELSE map[i]]
    ELSE LET n == Cardinality({i \in 1..Len(map) : ValueCmp(map[i][1], key) < 0})
         IN  SubSeq(map, 1, n) \o <<(<<key, value>>)>> \o SubSeq(map, n + 1, Len(map))

(***************************************************************************)
(* Encoder.                                                                *)
(***************************************************************************)
RECURSIVE Encode(_)
RECURSIVE EncodeItems(_)
RECURSIVE EncodePairs(_)
\* impl From<&Value> for Vec<u8>
Encode(v) ==
    CASE v.tag = "Integer" -> <<ByteI>> \o I64ToString(v.val) \o <<ByteE>>
      [] v.tag = "ByteString" -> UsizeToString(Len(v.val)) \o <<Colon>> \o v.val
      [] v.tag = "List" -> <<ByteL>> \o EncodeItems(v.val) \o <<ByteE>>
      [] v.tag = "Dictionary" -> <<ByteD>> \o EncodePairs(v.val) \o <<ByteE>>
      [] v.tag = "End" -> <<ByteE>>

\* for item in l { res.extend(item.into()) }
EncodeItems(items) ==
    IF items = <<>> THEN <<>> ELSE Encode(Head(items)) \o EncodeItems(Tail(items))

\* for (key, val) in map { res.extend(key.into()); res.extend(val.into()) }
EncodePairs(map) ==
    IF map = <<>> THEN <<>>
    ELSE Encode(Head(map)[1]) \o Encode(Head(map)[2]) \o EncodePairs(Tail(map))

\* One character of hex::encode: a nibble as a lowercase hexadecimal digit.
HexChar(n) == IF n < 10 THEN Digit0 + n ELSE 87 + n

RECURSIVE HexEncode(_)
\* hex::encode: two lowercase hexadecimal digits for every byte.
HexEncode(b) ==
    IF b = <<>> THEN <<>>
    ELSE <<HexChar(Head(b) \div 16), HexChar(Head(b) % 16)>> \o HexEncode(Tail(b))

RECURSIVE AsciiEncode(_)
RECURSIVE AsciiEncodeItems(_)
RECURSIVE AsciiEncodePairs(_)
\* impl From<&Value> for AsciiString (parser.rs): the byte-string arm writes the
\* length of the bytes and then their hex::encode.
AsciiEncode(v) ==
    CASE v.tag = "Integer" -> <<ByteI>> \o I64ToString(v.val) \o <<ByteE>>
      [] v.tag = "ByteString" -> UsizeToString(Len(v.val)) \o <<Colon>> \o HexEncode(v.val)
      [] v.tag = "List" -> <<ByteL>> \o AsciiEncodeItems(v.val) \o <<ByteE>>
      [] v.tag = "Dictionary" -> <<ByteD>> \o AsciiEncodePairs(v.val) \o <<ByteE>>
      [] v.tag = "End" -> <<ByteE>>

AsciiEncodeItems(items) ==
    IF items = <<>> THEN <<>>
    ELSE AsciiEncode(Head(items)) \o AsciiEncodeItems(Tail(items))

AsciiEncodePairs(map) ==
    IF map = <<>> THEN <<>>
    ELSE AsciiEncode(Head(map)[1]) \o AsciiEncode(Head(map)[2])
            \o AsciiEncodePairs(Tail(map))

(***************************************************************************)
(* Results.  A decode call ends Ok(None), Ok(Some(v)), Err(e), or, in a    *)
(* build with overflow checks, by a panic that aborts the process.         *)
(***************************************************************************)
Pending == [kind |-> "Pending", val |-> <<>>]
OkNone == [kind |-> "None", val |-> <<>>]
OkSome(v) == [kind |-> "Some", val |-> v]
Err(e) == [kind |-> "Err", val |-> e]
Panic == [kind |-> "Panic", val |-> <<>>]

\* enum ParseError
UnexpectedByte(b) == <<"UnexpectedByte", b>>
UnexpectedEOF == <<"UnexpectedEOF">>
InvalidFormat == <<"InvalidFormat">>

(***************************************************************************)
(* The state.                                                              *)
(*   overflow_checks  the build profile: TRUE panics on integer overflow   *)
(*                    (debug), FALSE wraps (release)                       *)
(*   original         the Value the input was encoded from, or NoValue for *)
(*                    an input given as bytes                              *)
(*   framing          "value" before the input is encoded, then "exact",   *)
(*                    "truncated" or "trailing" (bytes follow the value),  *)
(*                    or "raw" for an input given as bytes                 *)
(*   bytes, pos       the byte stream and how many bytes next() has        *)
(*                    yielded                                              *)
(*   stack            the activation records of the decoder: the arms of   *)
(*                    parse_benc_value that are in progress, innermost     *)
(*                    last                                                 *)
(*   result           what the outermost parse_benc_value call returned    *)
(*   root             what bencode.rs's parse_torrent_file returned        *)
(*   parser_root      what parser.rs's parse_torrent_file returned         *)
(*   encoded          the bytes Vec::<u8>::from(&v) gives for a decoded v  *)
(*   ascii_encoded    the characters AsciiString::from(&v) of parser.rs    *)
(*                    gives for a decoded v                                *)
(***************************************************************************)
VARIABLES overflow_checks, original, framing, bytes, pos, stack, result,
          root, parser_root, encoded, ascii_encoded

vars == <<overflow_checks, original, framing, bytes, pos, stack, result,
          root, parser_root, encoded, ascii_encoded>>

NoValue == [tag |-> "None", val |-> <<>>]
NotEncoded == <<-1>>

IntFrame(x) == [kind |-> "int", x |-> x]
LenFrame(n) == [kind |-> "len", len |-> n]
StrFrame(n, s) == [kind |-> "str", len |-> n, s |-> s]
ListFrame(items) == [kind |-> "list", items |-> items]
DictFrame(map) == [kind |-> "dict", map |-> map, has_key |-> FALSE, key |-> End]
DictValueFrame(map, key) == [kind |-> "dict", map |-> map, has_key |-> TRUE, key |-> key]

Top(stk) == stk[Len(stk)]
Pop(stk) == SubSeq(stk, 1, Len(stk) - 1)

IsDigit(b) == Digit0 <= b /\ b <= Digit9

RECURSIVE Return(_, _)
\* A parse_benc_value call returns Ok(Some(v)) to the frame that called it: the
\* outermost call hands it to the caller; the `l` loop breaks on End or pushes;
\* the `d` loop breaks on End in key position, else takes v as the key, and in
\* value position inserts (key, v) whatever v is.
Return(stk, v) ==
    IF stk = <<>> THEN <<stk, OkSome(v)>>
    ELSE LET f == Top(stk) IN
         IF f.kind = "list"
         THEN IF v.tag = "End"
              THEN Return(Pop(stk), List(f.items))
              ELSE <<Append(Pop(stk), ListFrame(Append(f.items, v))), Pending>>
         ELSE IF ~f.has_key
              THEN IF v.tag = "End"
                   THEN Return(Pop(stk), Dictionary(f.map))
                   ELSE <<Append(Pop(stk), DictValueFrame(f.map, v)), Pending>>
              ELSE <<Append(Pop(stk), DictFrame(BTreeInsert(f.map, f.key, v))), Pending>>

\* An error leaves through every `?` on the way out.
Fail(e) == <<(<<>>), Err(e)>>
Abort == <<(<<>>), Panic>>

\* No arm is reading its own bytes: the next read is the first of a value.
AwaitsValue(stk) == IF stk = <<>> THEN TRUE ELSE Top(stk).kind \in {"list", "dict"}

Decoding == framing # "value" /\ result.kind = "Pending"
AtEOF == pos = Len(bytes)
NextByte == bytes[pos + 1]

\* `val - 48` on u8 without overflow checks.
WrappingSub48(b) == (b + U8Mod - Digit0) % U8Mod

\* One pass of the `i` loop body after the byte is known not to be `e`:
\* x *= 10; x += i64::from(val - 48);
IntStep(stk, x, val) ==
    IF overflow_checks /\ MulOverflows(x) THEN Abort
    ELSE IF overflow_checks /\ val < Digit0 THEN Abort
    ELSE LET x10 == WrappingMul10(x)
             d == WrappingSub48(val)
         IN  IF overflow_checks /\ AddOverflows(x10, d) THEN Abort
             ELSE <<Append(Pop(stk), IntFrame(WrappingAdd(x10, d))), Pending>>

\* The `match a` of parse_benc_value on the first byte of a value.
TagStep(stk, a) ==
    IF a = ByteI THEN <<Append(stk, IntFrame(I64Zero)), Pending>>
    ELSE IF a = ByteL THEN <<Append(stk, ListFrame(<<>>)), Pending>>
    ELSE IF IsDigit(a) THEN <<Append(stk, LenFrame(a - Digit0)), Pending>>
    ELSE IF a = ByteD THEN <<Append(stk, DictFrame(<<>>)), Pending>>
    ELSE IF a = ByteE THEN Return(stk, End)
    ELSE Fail(UnexpectedEOF)

\* The length loop and the `ensure!` after it; a length of 0 runs the payload
\* loop zero times.
LenStep(stk, len, val) ==
    IF IsDigit(val) THEN <<Append(Pop(stk), LenFrame(len * 10 + (val - Digit0))), Pending>>
    ELSE IF val # Colon THEN Fail(UnexpectedByte(val))
    ELSE IF len = 0 THEN Return(Pop(stk), ByteString(<<>>))
    ELSE <<Append(Pop(stk), StrFrame(len, <<>>)), Pending>>

\* One pass of `for _ in 0..len { s.push(next) }`.
StrStep(stk, len, s, val) ==
    IF Len(s) + 1 = len THEN Return(Pop(stk), ByteString(Append(s, val)))
    ELSE <<Append(Pop(stk), StrFrame(len, Append(s, val))), Pending>>

Keep ==
    UNCHANGED <<overflow_checks, original, framing, bytes, root, parser_root, encoded,
                ascii_encoded>>

\* bytes.next() at the head of a parse_benc_value call (the outermost one, or one
\* made by an `l` or `d` loop).  None is Ok(None), which the loops' ok_or turns
\* into UnexpectedEOF.
ReadTag ==
    /\ Decoding
    /\ AwaitsValue(stack)
    /\ LET r == IF AtEOF
                THEN (IF stack = <<>> THEN <<stack, OkNone>> ELSE Fail(UnexpectedEOF))
                ELSE TagStep(stack, NextByte)
       IN  /\ stack' = r[1]
           /\ result' = r[2]
           /\ pos' = IF AtEOF THEN pos ELSE pos + 1
    /\ Keep

\* bytes.next() in the `i` arm's loop.
ReadIntByte ==
    /\ Decoding
    /\ stack # <<>> /\ Top(stack).kind = "int"
    /\ LET x == Top(stack).x
           r == IF AtEOF THEN Fail(UnexpectedEOF)
                ELSE IF NextByte = ByteE THEN Return(Pop(stack), Integer(x))
                ELSE IntStep(stack, x, NextByte)
       IN  /\ stack' = r[1]
           /\ result' = r[2]
           /\ pos' = IF AtEOF THEN pos ELSE pos + 1
    /\ Keep

\* bytes.next() in the length loop of the digit arm.
ReadLenByte ==
    /\ Decoding
    /\ stack # <<>> /\ Top(stack).kind = "len"
    /\ LET r == IF AtEOF THEN Fail(UnexpectedEOF)
                ELSE LenStep(stack, Top(stack).len, NextByte)
       IN  /\ stack' = r[1]
           /\ result' = r[2]
           /\ pos' = IF AtEOF THEN pos ELSE pos + 1
    /\ Keep

\* bytes.next() in the payload loop of the digit arm.
ReadStrByte ==
    /\ Decoding
    /\ stack # <<>> /\ Top(stack).kind = "str"
    /\ LET r == IF AtEOF THEN Fail(UnexpectedEOF)
                ELSE StrStep(stack, Top(stack).len, Top(stack).s, NextByte)
       IN  /\ stack' = r[1]
           /\ result' = r[2]
           /\ pos' = IF AtEOF THEN pos ELSE pos + 1
    /\ Keep

(***************************************************************************)
(* The callers of the decoder.                                             *)
(***************************************************************************)
Returned == result.kind \in {"None", "Some", "Err"}

\* Value::from("info")
InfoKey == ByteString(<<105, 110, 102, 111>>)

\* BTreeMap::contains_key / the lookup behind Index: a key equal under Ord.
HasKey(map, key) == \E i \in 1..Len(map) : ValueCmp(map[i][1], key) = 0

\* bencode.rs: the decode error leaves through `?`; a Dictionary root is indexed
\* with root[&"info"], which panics when the key is absent; every path that is
\* left ends in Err(InvalidFormat).
ParseTorrentFileBencode(res) ==
    IF res.kind = "Err" THEN res
    ELSE IF res.kind = "Some" /\ res.val.tag = "Dictionary" /\ ~HasKey(res.val.val, InfoKey)
    THEN Panic
    ELSE Err(InvalidFormat)

\* parser.rs: the decode error leaves through `?`; a Dictionary root is returned;
\* everything else is Err(InvalidFormat).
ParseTorrentFileParser(res) ==
    IF res.kind = "Err" THEN res
    ELSE IF res.kind = "Some" /\ res.val.tag = "Dictionary"
    THEN [kind |-> "Ok", val |-> res.val.val]
    ELSE Err(InvalidFormat)

\* The tail of bencode.rs's parse_torrent_file, once its parse_benc_value call
\* has returned.
parse_torrent_file ==
    /\ Returned
    /\ root.kind = "Pending"
    /\ root' = ParseTorrentFileBencode(result)
    /\ UNCHANGED <<overflow_checks, original, framing, bytes, pos, stack, result,
                   parser_root, encoded, ascii_encoded>>

\* The tail of parser.rs's parse_torrent_file.
parser_parse_torrent_file ==
    /\ Returned
    /\ parser_root.kind = "Pending"
    /\ parser_root' = ParseTorrentFileParser(result)
    /\ UNCHANGED <<overflow_checks, original, framing, bytes, pos, stack, result,
                   root, encoded, ascii_encoded>>

\* Vec::<u8>::from(&v) on a decoded value.
EncodeResult ==
    /\ result.kind = "Some"
    /\ encoded = NotEncoded
    /\ encoded' = Encode(result.val)
    /\ UNCHANGED <<overflow_checks, original, framing, bytes, pos, stack, result,
                   root, parser_root, ascii_encoded>>

\* AsciiString::from(&v) of parser.rs on a decoded value.
AsciiEncodeResult ==
    /\ result.kind = "Some"
    /\ ascii_encoded = NotEncoded
    /\ ascii_encoded' = AsciiEncode(result.val)
    /\ UNCHANGED <<overflow_checks, original, framing, bytes, pos, stack, result,
                   root, parser_root, encoded>>

(***************************************************************************)
(* The inputs.                                                             *)
(***************************************************************************)
MaxRawLen == 4
MaxItems == 2
MaxEntries == 2
MaxDigits == 20

RECURSIVE SeqsUpTo(_, _)
\* All sequences over S of length at most n.
SeqsUpTo(S, n) ==
    IF n = 0 THEN {<<>>}
    ELSE LET shorter == SeqsUpTo(S, n - 1)
         IN  shorter \cup {Append(q, x) : q \in shorter, x \in S}

RawAlphabet == {ByteI, ByteL, ByteD, ByteE, Colon, Minus, Digit0, 49, 97}

\* "i" d^k "e": an integer literal of k equal digits.
Repeated(d, k) == <<ByteI>> \o [i \in 1..k |-> d] \o <<ByteE>>

\* The digits of i64::MAX with the last one raised: 9223372036854775808.
OnePastMax == <<ByteI>> \o [UDigits(I64Max) EXCEPT ![19] = 56] \o <<ByteE>>

KnownVectors ==
    { <<52, Colon, 115, 112, 97, 109>>,                       \* 4:spam
      <<ByteI, 52, 50, ByteE>>,                               \* i42e
      <<ByteI, Minus, 51, ByteE>>,                            \* i-3e
      <<ByteI, Digit0, 51, ByteE>>,                           \* i03e
      <<ByteL, 52, Colon, 115, 112, 97, 109, 52, Colon, 101, 103, 103, 115, ByteE>>,
      <<ByteD, 51, Colon, 99, 111, 119, 51, Colon, 109, 111, 111,
        52, Colon, 115, 112, 97, 109, 52, Colon, 101, 103, 103, 115, ByteE>>,
      <<ByteD, 52, Colon, 115, 112, 97, 109, 49, Colon, 120,
        51, Colon, 99, 111, 119, 49, Colon, 121,
        51, Colon, 97, 98, 99, 49, Colon, 122, ByteE>>,       \* keys spam, cow, abc
      <<51, Colon, 97, 98>>,                                  \* 3:ab
      <<ByteD, 49, Colon, 97, ByteE, ByteE>>,                 \* d1:aee
      <<ByteD, ByteI, 49, ByteE, Digit0, Colon, ByteE>>,      \* di1e0:e
      <<ByteD, ByteL, ByteE, ByteD, ByteE, ByteE>>,           \* dledee
      <<ByteD, 52, Colon, 105, 110, 102, 111, ByteD, ByteE, ByteE>>,      \* d4:infodee
      <<ByteD, 52, Colon, 105, 110, 102, 111, ByteI, 49, ByteE, ByteE>>,  \* d4:infoi1ee
      OnePastMax }

IntLiterals == {Repeated(d, k) : d \in {49, Digit9}, k \in 1..MaxDigits}

RawInputs == SeqsUpTo(RawAlphabet, MaxRawLen) \cup KnownVectors \cup IntLiterals

IntValues == {Integer(I64(0)), Integer(I64(42)), Integer(I64(-3)),
              Integer(I64Max), Integer(I64Min)}
StrValues == {ByteString(b) : b \in SeqsUpTo({97, 200}, 2)}
Elements == {Integer(I64(-3)), Integer(I64(7)), ByteString(<<>>), ByteString(<<97, 200>>)}
Keys == {ByteString(<<>>), ByteString(<<97>>), ByteString(<<97, 98>>), ByteString(<<200>>)}
Entries == {<<k, v>> : k \in Keys, v \in {Integer(I64(7)), ByteString(<<98>>)}}

RECURSIVE FromEntries(_)
\* The map built by inserting the pairs of a sequence in order.
FromEntries(q) ==
    IF q = <<>> THEN <<>>
    ELSE BTreeInsert(FromEntries(Pop(q)), Top(q)[1], Top(q)[2])

ListValues == {List(q) : q \in SeqsUpTo(Elements, MaxItems)}
DictValues == {Dictionary(FromEntries(q)) : q \in SeqsUpTo(Entries, MaxEntries)}
NestedValues ==
    { List(<<List(<<>>), Dictionary(<<>>)>>),
      List(<<Dictionary(FromEntries(<<(<<ByteString(<<97>>), List(<<Integer(I64(7))>>)>>)>>))>>),
      Dictionary(FromEntries(<<(<<InfoKey, Dictionary(<<>>)>>),
                               (<<ByteString(<<97>>), List(<<ByteString(<<>>)>>)>>)>>)) }

Values == IntValues \cup StrValues \cup ListValues \cup DictValues \cup NestedValues

Init ==
    /\ overflow_checks \in BOOLEAN
    /\ \/ /\ original = NoValue
          /\ framing = "raw"
          /\ bytes \in RawInputs
       \/ /\ original \in Values
          /\ framing = "value"
          /\ bytes = <<>>
    /\ pos = 0
    /\ stack = <<>>
    /\ result = Pending
    /\ root = Pending
    /\ parser_root = Pending
    /\ encoded = NotEncoded
    /\ ascii_encoded = NotEncoded

\* The encoder writes the file the decoder will read.
EncodeValue ==
    /\ framing = "value"
    /\ bytes' = Encode(original)
    /\ framing' = "exact"
    /\ UNCHANGED <<overflow_checks, original, pos, stack, result, root, parser_root, encoded,
                   ascii_encoded>>

\* The file is cut short before it is read: a non-empty proper prefix is left.
Truncate ==
    /\ framing = "exact"
    /\ pos = 0 /\ result.kind = "Pending"
    /\ \E k \in 1..(Len(bytes) - 1) :
          bytes' = SubSeq(bytes, 1, k)
    /\ framing' = "truncated"
    /\ UNCHANGED <<overflow_checks, original, pos, stack, result, root, parser_root, encoded,
                   ascii_encoded>>

\* Bytes that may follow a value in the stream.
MaxTrail == 1
TrailAlphabet == {ByteE, ByteI, 49}
Trailers == SeqsUpTo(TrailAlphabet, MaxTrail) \ {<<>>}

\* The stream goes on after the encoded value.
AppendTrailing ==
    /\ framing = "exact"
    /\ pos = 0 /\ result.kind = "Pending"
    /\ \E t \in Trailers : bytes' = bytes \o t
    /\ framing' = "trailing"
    /\ UNCHANGED <<overflow_checks, original, pos, stack, result, root, parser_root, encoded,
                   ascii_encoded>>

Next ==
    \/ EncodeValue
    \/ Truncate
    \/ AppendTrailing
    \/ ReadTag
    \/ ReadIntByte
    \/ ReadLenByte
    \/ ReadStrByte
    \/ parse_torrent_file
    \/ parser_parse_torrent_file
    \/ EncodeResult
    \/ AsciiEncodeResult

Spec == Init /\ [][Next]_vars

(***************************************************************************)
(* Vocabulary of the properties.                                           *)
(***************************************************************************)
Done == result.kind # "Pending"

IsSome(r, v) == r.kind = "Some" /\ ValueCmp(r.val, v) = 0
IsErr(r, e) == r.kind = "Err" /\ r.val = e

RECURSIVE ContainsEnd(_)
\* End is the value itself, or an element, key or value somewhere inside it.
ContainsEnd(v) ==
    \/ v.tag = "End"
    \/ v.tag = "List" /\ \E i \in 1..Len(v.val) : ContainsEnd(v.val[i])
    \/ v.tag = "Dictionary" /\ \E i \in 1..Len(v.val) :
          ContainsEnd(v.val[i][1]) \/ ContainsEnd(v.val[i][2])

RECURSIVE Dicts(_)
\* Every Dictionary of a tree, the root included.
Dicts(v) ==
    IF v.tag = "List" THEN UNION {Dicts(v.val[i]) : i \in 1..Len(v.val)}
    ELSE IF v.tag = "Dictionary"
    THEN {v} \cup UNION {Dicts(v.val[i][1]) \cup Dicts(v.val[i][2]) : i \in 1..Len(v.val)}
    ELSE {}

ByteStringKeys(d) == \A i \in 1..Len(d.val) : d.val[i][1].tag = "ByteString"

\* Unsigned byte-wise lexicographic order, stated on its own: a < b when they
\* agree on n bytes and then a ends first or holds the smaller byte.
BytesLess(a, b) ==
    \E n \in 0..Len(a) :
        /\ n <= Len(b)
        /\ \A i \in 1..n : a[i] = b[i]
        /\ \/ n = Len(a) /\ n < Len(b)
           \/ n < Len(a) /\ n < Len(b) /\ a[n + 1] < b[n + 1]

RECURSIVE SortByKeyBytes(_)
\* The pairs of a set, least raw key first.
SortByKeyBytes(S) ==
    IF S = {} THEN <<>>
    ELSE LET m == CHOOSE e \in S : \A f \in S : ~BytesLess(f[1].val, e[1].val)
         IN  <<m>> \o SortByKeyBytes(S \ {m})

PairSet(d) == {d.val[i] : i \in 1..Len(d.val)}

\* Every order in which the pairs of a map can be inserted.
InsertionOrders(d) ==
    LET n == Len(d.val)
    IN  {[i \in 1..n |-> d.val[f[i]]] :
            f \in {g \in [1..n -> 1..n] : \A i, j \in 1..n : g[i] = g[j] => i = j}}

\* "i", an optional "-", the decimal digits of the magnitude, "e".
IntegerLiteral(x) ==
    <<ByteI>> \o (IF IsNeg(x) THEN <<Minus>> \o UDigits(Negate(x)) ELSE UDigits(x)) \o <<ByteE>>

\* The digits between "i" and "e" of an input that is an integer literal.
LiteralDigits(b) == SubSeq(b, 2, Len(b) - 1)

IsUnsignedLiteral(b) ==
    /\ Len(b) >= 3
    /\ b[1] = ByteI
    /\ b[Len(b)] = ByteE
    /\ \A i \in 2..(Len(b) - 1) : IsDigit(b[i])

\* C1: round trip.  Once the decoder has returned on the bytes Encode produced
\* for a value, the result is Ok(Some(that value)).
RoundTrip == (framing = "exact" /\ Done) => IsSome(result, original)

\* C2: canonical ordering.  The bytes the encoder emits for a decoded Dictionary
\* whose keys are byte strings are "d", the pairs in strictly ascending unsigned
\* byte-wise order of the raw keys, "e", whatever the order of the keys in the
\* input; the same holds of every Dictionary inside the decoded tree; and
\* inserting the pairs of any such Dictionary in any other order gives a map
\* that encodes to the same bytes.
CanonicalOrdering ==
    encoded # NotEncoded =>
        /\ (result.val.tag = "Dictionary" /\ ByteStringKeys(result.val)) =>
              encoded = <<ByteD>> \o EncodePairs(SortByKeyBytes(PairSet(result.val)))
                           \o <<ByteE>>
        /\ \A d \in Dicts(result.val) :
              /\ ByteStringKeys(d) =>
                    /\ \A i, j \in 1..Len(d.val) :
                          i < j => BytesLess(d.val[i][1].val, d.val[j][1].val)
                    /\ Encode(d) = <<ByteD>> \o EncodePairs(SortByKeyBytes(PairSet(d)))
                                      \o <<ByteE>>
              /\ \A q \in InsertionOrders(d) :
                    Encode(Dictionary(FromEntries(q))) = Encode(d)

\* A decoded Dictionary of three byte-string keys that the input did not hold
\* in ascending order has been encoded.
CanonicalOrderingWitness ==
    /\ encoded # NotEncoded
    /\ framing = "raw"
    /\ result.val.tag = "Dictionary"
    /\ Len(result.val.val) = 3
    /\ ByteStringKeys(result.val)
    /\ encoded # bytes

\* C3: the terminator never surfaces.  A value the outermost decode call returns
\* is not End and holds no End as an element, a key or a value.
NoEndReturned == result.kind = "Some" => ~ContainsEnd(result.val)

\* C4: signed integer literals.  On the input "i<digits of n>e" or
\* "i-<digits of n>e" the decoder returns Integer(n), respectively Integer(-n).
SignedLiteralDecoded ==
    \A x \in {I64(42), I64(-3), I64(7), I64Max, I64Min} :
        (Done /\ bytes = IntegerLiteral(x)) => IsSome(result, Integer(x))

\* C5: leading zeros.  An integer literal whose digits start with "0" and go on
\* is rejected with an error.
LeadingZeroRejected ==
    (Done /\ IsUnsignedLiteral(bytes) /\ Len(bytes) >= 4 /\ bytes[2] = Digit0)
        => result.kind = "Err"

\* C6: dictionary keys.  Every key of every Dictionary in a returned tree is a
\* ByteString (a value of another kind in key position is a decode error).
KeysAreByteStrings ==
    result.kind = "Some" => \A d \in Dicts(result.val) : ByteStringKeys(d)

\* C7: end of input.  The decoder returns Ok(None) exactly on the empty input,
\* and on an input that stops inside a value (a non-empty proper prefix of an
\* encoding) it returns the UnexpectedEOF error.
EndOfInput ==
    Done =>
        /\ result.kind = "None" <=> bytes = <<>>
        /\ framing = "truncated" => IsErr(result, UnexpectedEOF)

\* What the root helper is to return for a decode result r.
RootContract(r, got) ==
    IF r.kind = "Some" /\ r.val.tag = "Dictionary"
    THEN got.kind = "Ok" /\ got.val = r.val.val
    ELSE IsErr(got, InvalidFormat)

\* C8: the root helper.  parse_torrent_file (of bencode.rs, and of parser.rs)
\* returns Ok(root) when the decoded value is a Dictionary and Err(InvalidFormat)
\* on every other outcome of the decode call, premature EOF included.
RootHelper ==
    /\ root.kind # "Pending" => RootContract(result, root)
    /\ parser_root.kind # "Pending" => RootContract(result, parser_root)

\* C9: the info entry.  When the root Dictionary has no "info" entry, or one
\* that is not a Dictionary, parse_torrent_file returns Err(InvalidFormat).
InfoRequired ==
    (/\ root.kind # "Pending"
     /\ result.kind = "Some"
     /\ result.val.tag = "Dictionary"
     /\ \A i \in 1..Len(result.val.val) :
           ValueCmp(result.val.val[i][1], InfoKey) = 0
               => result.val.val[i][2].tag # "Dictionary")
        => IsErr(root, InvalidFormat)

\* C10: 64-bit bound.  An integer literal whose digits denote a magnitude above
\* i64::MAX makes the decoder return an error: no Integer, no abort.
OverflowIsError ==
    (/\ Done
     /\ IsUnsignedLiteral(bytes)
     /\ bytes[2] # Digit0
     /\ \/ Len(LiteralDigits(bytes)) > Len(UDigits(I64Max))
        \/ /\ Len(LiteralDigits(bytes)) = Len(UDigits(I64Max))
           /\ BytesLess(UDigits(I64Max), LiteralDigits(bytes)))
        => result.kind = "Err"

RECURSIVE Decimal(_)
\* The ASCII decimal numeral of a natural number, most significant digit first.
Decimal(n) ==
    IF n < 10 THEN <<Digit0 + n>>
    ELSE Decimal(n \div 10) \o <<Digit0 + (n % 10)>>

\* "<len>:" and then the bytes themselves.
LengthPrefixed(b) == Decimal(Len(b)) \o <<Colon>> \o b

\* C11: byte-string encoding.  What an encoder of the repository (Vec<u8> of
\* bencode.rs, AsciiString of parser.rs) emits for a ByteString b is the decimal
\* of len(b), ":", and the len(b) bytes of b unchanged.
ByteStringEncoding ==
    /\ (framing = "exact" /\ original.tag = "ByteString")
          => bytes = LengthPrefixed(original.val)
    /\ (encoded # NotEncoded /\ result.val.tag = "ByteString")
          => encoded = LengthPrefixed(result.val.val)
    /\ (ascii_encoded # NotEncoded /\ result.val.tag = "ByteString")
          => ascii_encoded = LengthPrefixed(result.val.val)

\* C12: one value and no more.  On the bytes of Encode(v) followed by further
\* bytes the decoder returns v and stops with the stream at the first byte
\* after the encoding.
OneValueConsumed ==
    (framing = "trailing" /\ Done)
        => IsSome(result, original) /\ pos = Len(Encode(original))

\* A step of the decoder: one bytes.next().
DecoderStep == ReadTag \/ ReadIntByte \/ ReadLenByte \/ ReadStrByte

\* C13: single pass, and it ends.  The call ends only by returning Ok(None),
\* Ok(Some(v)) or an error; until then a step is always possible; every step
\* (a loop iteration, or the first read of a recursive call) takes exactly the
\* next unread byte, or finds the input exhausted and returns; the position
\* only moves forward and never passes the end of the input.
SinglePassTerminates ==
    /\ [](result.kind \in {"Pending", "None", "Some", "Err"})
    /\ []((framing # "value" /\ ~Done) => ENABLED DecoderStep)
    /\ [](pos <= Len(bytes))
    /\ [][DecoderStep =>
            \/ pos' = pos + 1
            \/ pos' = pos /\ AtEOF /\ result'.kind \in {"None", "Err"}]_vars
    /\ [][pos' >= pos]_vars

====
